---- MODULE Spec2Model ----
(***************************************************************************)
(* A model of two value types of the HTTP/2 engine:                        *)
(*   WindowSize  (src/src/solicit/window_size.rs): the flow-control        *)
(*               counter, an i32 with guarded increase / decrease;         *)
(*   HeaderValue (src/httpbis/src/solicit/header/value.rs): bytes that     *)
(*               passed the header-value character check.                  *)
(*                                                                         *)
(* Numbers keep the width they have in the code.  An i32 is an integer of  *)
(* MinI32..MaxI32.  A u32 does not fit the integers of TLC, so it is       *)
(* the record [hi, lo] that stands for hi * 2^31 + lo, with hi in 0..1     *)
(* (bit 31) and lo in 0..2^31-1 (bits 0..30).  No sum or difference is     *)
(* ever formed that leaves MinI32..MaxI32.                                 *)
(***************************************************************************)
EXTENDS Integers, Sequences, FiniteSets

VARIABLES
    win,      \* WindowSize.0, the i32 of the window
    calls,    \* number of calls made on the window so far
    last,     \* the last call on the window: arguments and what it returned
    input,    \* the Bytes handed to HeaderValue::from_bytes
    result,   \* what from_bytes returned for input
    view      \* what into_inner / as_slice returned for the validated value

vars == <<win, calls, last, input, result, view>>

----------------------------------------------------------------------------
(* Bounds of the model. *)

\* Calls made on one window.
MaxCalls == 3

\* Length of the byte strings built from SampleBytes.
MaxLen == 3

----------------------------------------------------------------------------
(* Integer widths. *)

\* i32::MAX, the largest value of WindowSize.0.
MaxI32 == 2147483647

\* i32::MIN.
MinI32 == -MaxI32 - 1

I32 == MinI32..MaxI32

\* A u32 with bit 31 = h and bits 0..30 = l.
U32(h, l) == [hi |-> h, lo |-> l]

U32Zero == U32(0, 0)

\* a > b on u32.
U32Gt(a, b) == a.hi > b.hi \/ (a.hi = b.hi /\ a.lo > b.lo)

\* `x as u32` for an i32 x: the same 32 bits, read unsigned.
AsU32(x) == IF x >= 0 THEN U32(0, x) ELSE U32(1, x - MinI32)

\* `u as i32` for a u32 u: the same 32 bits, read in two's complement.
AsI32(u) == IF u.hi = 0 THEN u.lo ELSE MinI32 + u.lo

\* Option<i32>.
None == [some |-> FALSE, val |-> 0]

Some(v) == [some |-> TRUE, val |-> v]

\* i32::checked_add: None when a + b leaves the i32 range.
checked_add(a, b) ==
    IF b > 0 /\ a > MaxI32 - b THEN None
    ELSE IF b < 0 /\ a < MinI32 - b THEN None
    ELSE Some(a + b)

\* i32::checked_sub: None when a - b leaves the i32 range.
checked_sub(a, b) ==
    IF b > 0 /\ a < MinI32 + b THEN None
    ELSE IF b < 0 /\ a > MaxI32 + b THEN None
    ELSE Some(a - b)

\* i32::wrapping_add, for operands whose sum is above i32::MAX or in range.
wrapping_add(a, b) ==
    IF b > 0 /\ a > MaxI32 - b THEN ((a - MaxI32 - 1) + b) + MinI32
    ELSE a + b

----------------------------------------------------------------------------
(* WindowSize *)

MAX_WINDOW_SIZE == 2147483647

MAX_WINDOW_SIZE_INC == 2147483647

\* What a mutating call leaves: the window, Ok / Err, and the line of the
\* source that returned (the error type is (), so the line tells the
\* failures apart).
Outcome(w, r, l) == [win |-> w, res |-> r, line |-> l]

\* try_increase without the test of delta.
try_increase_no_delta_check(w, delta) ==
    LET next_val == checked_add(w, AsI32(delta)) IN
    IF ~next_val.some THEN Outcome(w, "Err", 39)
    ELSE Outcome(next_val.val, "Ok", 45)

\* try_increase with a wrapping addition.
try_increase_wrapping(w, delta) ==
    IF U32Gt(delta, U32(0, MAX_WINDOW_SIZE_INC)) \/ delta = U32Zero
    THEN Outcome(w, "Err", 32)
    ELSE Outcome(wrapping_add(w, AsI32(delta)), "Ok", 45)

try_increase(w, delta) ==
    IF U32Gt(delta, U32(0, MAX_WINDOW_SIZE_INC)) \/ delta = U32Zero
    THEN Outcome(w, "Err", 32)
    ELSE LET next_val == checked_add(w, AsI32(delta)) IN
         IF ~next_val.some THEN Outcome(w, "Err", 39)
         ELSE Outcome(next_val.val, "Ok", 45)

\* try_decrease with a floor at zero.
try_decrease_floor(w, delta) ==
    LET new == checked_sub(w, delta) IN
    IF new.some /\ new.val >= 0 THEN Outcome(new.val, "Ok", 59)
    ELSE Outcome(w, "Err", 61)

try_decrease(w, delta) ==
    LET new == checked_sub(w, delta) IN
    IF new.some THEN Outcome(new.val, "Ok", 59)
    ELSE Outcome(w, "Err", 61)

\* try_decrease_to_positive that stores before it tests.
try_decrease_to_positive_store_first(w, delta) ==
    LET new == checked_sub(w, delta) IN
    IF ~new.some THEN Outcome(w, "Err", 71)
    ELSE IF new.val >= 0 THEN Outcome(new.val, "Ok", 69)
    ELSE Outcome(new.val, "Err", 71)

\* try_decrease_to_positive that refuses a result of zero.
try_decrease_to_positive_strict(w, delta) ==
    LET new == checked_sub(w, delta) IN
    IF new.some /\ new.val > 0 THEN Outcome(new.val, "Ok", 69)
    ELSE Outcome(w, "Err", 71)

\* try_decrease_to_positive without the guard `new.val >= 0`.
try_decrease_to_positive_no_guard(w, delta) ==
    LET new == checked_sub(w, delta) IN
    IF new.some THEN Outcome(new.val, "Ok", 69)
    ELSE Outcome(w, "Err", 71)

try_decrease_to_positive(w, delta) ==
    LET new == checked_sub(w, delta) IN
    IF new.some /\ new.val >= 0 THEN Outcome(new.val, "Ok", 69)
    ELSE Outcome(w, "Err", 71)

new(size_) == size_

size(w) == w

\* unsigned: r = self.0 as u32; assert_eq!(r as i32, self.0); r.
\* panic is TRUE when the assertion fails.
unsigned(w) ==
    LET r == AsU32(w) IN
    IF AsI32(r) # w THEN [panic |-> TRUE, val |-> U32Zero]
    ELSE [panic |-> FALSE, val |-> r]

----------------------------------------------------------------------------
(* HeaderValue *)

\* b' ', b'~' and b'\t'.
SP == 32

TILDE == 126

HTAB == 9

\* u8::is_ascii.
is_ascii(b) == b <= 127

\* Ascii, the wrapper of crate::ascii around Bytes that are known ASCII.
Ascii_from_bytes_unchecked(bs) == [bytes |-> bs]

Ascii_into_bytes(a) == a.bytes

Ascii_as_bytes(a) == a.bytes

\* Result<HeaderValue, (HeaderError, Bytes)>: val is the HeaderValue of
\* Ok, err and bs the pair of Err.
Ok(v) == [ok |-> TRUE, val |-> v, err |-> "none", bs |-> <<>>]

Err(e, b) == [ok |-> FALSE, val |-> Ascii_from_bytes_unchecked(<<>>),
              err |-> e, bs |-> b]

\* The loop of from_bytes from the i-th byte on: the error of the first
\* byte that fails a test, "none" when no byte does.
RECURSIVE scan(_, _)
scan(bs, i) ==
    IF i > Len(bs) THEN "none"
    ELSE IF ~is_ascii(bs[i]) THEN "HeaderValueNotAscii"
    ELSE IF (bs[i] < SP \/ bs[i] > TILDE) /\ bs[i] # HTAB
         THEN "IncorrectCharInValue"
    ELSE scan(bs, i + 1)

\* Index of the first byte that fails a test, Len(bs) + 1 when none does.
RECURSIVE scanned(_, _)
scanned(bs, i) ==
    IF i > Len(bs) THEN i
    ELSE IF ~is_ascii(bs[i]) THEN i
    ELSE IF (bs[i] < SP \/ bs[i] > TILDE) /\ bs[i] # HTAB THEN i
    ELSE scanned(bs, i + 1)

\* from_bytes without the exception for the tab.
RECURSIVE scan_no_tab(_, _)
scan_no_tab(bs, i) ==
    IF i > Len(bs) THEN "none"
    ELSE IF ~is_ascii(bs[i]) THEN "HeaderValueNotAscii"
    ELSE IF bs[i] < SP \/ bs[i] > TILDE THEN "IncorrectCharInValue"
    ELSE scan_no_tab(bs, i + 1)

from_bytes_no_tab(bs) ==
    LET e == scan_no_tab(bs, 1) IN
    IF e # "none" THEN Err(e, bs)
    ELSE Ok([ascii |-> Ascii_from_bytes_unchecked(bs)])

\* from_bytes that tests the whole buffer for ASCII before it looks at the
\* characters.
from_bytes_two_pass(bs) ==
    IF \E i \in 1..Len(bs) : ~is_ascii(bs[i])
    THEN Err("HeaderValueNotAscii", bs)
    ELSE IF \E i \in 1..Len(bs) :
                (bs[i] < SP \/ bs[i] > TILDE) /\ bs[i] # HTAB
    THEN Err("IncorrectCharInValue", bs)
    ELSE Ok([ascii |-> Ascii_from_bytes_unchecked(bs)])

\* from_bytes that hands back only the bytes it has consumed.
from_bytes_consumed(bs) ==
    LET e == scan(bs, 1) IN
    IF e # "none" THEN Err(e, SubSeq(bs, 1, scanned(bs, 1)))
    ELSE Ok([ascii |-> Ascii_from_bytes_unchecked(bs)])

\* HeaderValue::from_bytes.  HeaderValue is the tuple struct around Ascii.
from_bytes(bs) ==
    LET e == scan(bs, 1) IN
    IF e # "none" THEN Err(e, bs)
    ELSE Ok([ascii |-> Ascii_from_bytes_unchecked(bs)])

into_inner(hv) == Ascii_into_bytes(hv.ascii)

as_slice(hv) == Ascii_as_bytes(hv.ascii)

----------------------------------------------------------------------------
(* Inputs *)

\* Initial sizes of a window.
InitSizes == {0, 10, 65535, MaxI32, -1, MinI32}

\* Arguments of try_increase: 0, 1, 1000, 2^31 - 1, 2^31, 2^32 - 1.
IncDeltas == {U32Zero, U32(0, 1), U32(0, 1000), U32(0, MaxI32),
              U32(1, 0), U32(1, MaxI32)}

\* Arguments of try_decrease and try_decrease_to_positive.
DecDeltas == {0, 1, 10, 50, 70000, MaxI32, -1, MinI32}

\* Every octet.
Byte == 0..255

\* Octets on both sides of each test of from_bytes.
SampleBytes == {0, 9, 10, 31, 32, 72, 105, 126, 127, 128, 255}

RECURSIVE SeqsUpTo(_, _)
SeqsUpTo(S, n) ==
    IF n = 0 THEN {<<>>}
    ELSE LET shorter == SeqsUpTo(S, n - 1) IN
         shorter \cup {Append(q, b) : q \in shorter, b \in S}

\* Buffers handed to from_bytes: every buffer of at most one octet, and the
\* buffers of at most MaxLen sample octets.
Inputs == SeqsUpTo(Byte, 1) \cup SeqsUpTo(SampleBytes, MaxLen)

----------------------------------------------------------------------------
(* State *)

NoCall == [op |-> "new", du |-> U32Zero, di |-> 0, before |-> 0,
           res |-> "Ok", line |-> 77, panic |-> FALSE, ru |-> U32Zero,
           ri |-> 0]

NoResult == [ok |-> FALSE, val |-> Ascii_from_bytes_unchecked(<<>>),
             err |-> "pending", bs |-> <<>>]

NoView == [op |-> "none", bytes |-> <<>>]

Mutating == {"try_increase", "try_decrease", "try_decrease_to_positive"}

WindowIdle == /\ win = new(65535)
              /\ calls = 0
              /\ last = [NoCall EXCEPT !.before = 65535]

HeaderIdle == /\ input = <<>>
              /\ result = NoResult
              /\ view = NoView

\* A window after WindowSize::new(size).
InitWindow ==
    \E s \in InitSizes :
        /\ win = new(s)
        /\ calls = 0
        /\ last = [NoCall EXCEPT !.before = s]

\* A buffer on its way to from_bytes.
InitHeader ==
    /\ input \in Inputs
    /\ result = NoResult
    /\ view = NoView

\* The record of a mutating call that found the window at w and left out.
Call(op, du, di, w, out) ==
    [NoCall EXCEPT !.op = op, !.du = du, !.di = di, !.before = w,
                   !.res = out.res, !.line = out.line]

TryIncrease ==
    /\ calls < MaxCalls
    /\ \E delta \in IncDeltas :
        LET out == try_increase(win, delta) IN
        /\ win' = out.win
        /\ last' = Call("try_increase", delta, 0, win, out)
    /\ calls' = calls + 1
    /\ UNCHANGED <<input, result, view>>

TryDecrease ==
    /\ calls < MaxCalls
    /\ \E delta \in DecDeltas :
        LET out == try_decrease(win, delta) IN
        /\ win' = out.win
        /\ last' = Call("try_decrease", U32Zero, delta, win, out)
    /\ calls' = calls + 1
    /\ UNCHANGED <<input, result, view>>

TryDecreaseToPositive ==
    /\ calls < MaxCalls
    /\ \E delta \in DecDeltas :
        LET out == try_decrease_to_positive(win, delta) IN
        /\ win' = out.win
        /\ last' = Call("try_decrease_to_positive", U32Zero, delta, win, out)
    /\ calls' = calls + 1
    /\ UNCHANGED <<input, result, view>>

Size ==
    /\ calls < MaxCalls
    /\ calls' = calls + 1
    /\ last' = [NoCall EXCEPT !.op = "size", !.before = win, !.line = 84,
                              !.ri = size(win)]
    /\ UNCHANGED <<win, input, result, view>>

Unsigned ==
    /\ calls < MaxCalls
    /\ calls' = calls + 1
    /\ LET r == unsigned(win) IN
       last' = [NoCall EXCEPT !.op = "unsigned", !.before = win,
                              !.line = IF r.panic THEN 92 ELSE 93,
                              !.res = IF r.panic THEN "Panic" ELSE "Ok",
                              !.panic = r.panic, !.ru = r.val]
    /\ UNCHANGED <<win, input, result, view>>

FromBytes ==
    /\ result = NoResult
    /\ result' = from_bytes(input)
    /\ UNCHANGED <<win, calls, last, input, view>>

IntoInner ==
    /\ result.ok
    /\ view = NoView
    /\ view' = [op |-> "into_inner", bytes |-> into_inner(result.val)]
    /\ UNCHANGED <<win, calls, last, input, result>>

AsSlice ==
    /\ result.ok
    /\ view = NoView
    /\ view' = [op |-> "as_slice", bytes |-> as_slice(result.val)]
    /\ UNCHANGED <<win, calls, last, input, result>>

\* Every call on a window of any initial size.
Init == InitWindow /\ HeaderIdle

Next == TryIncrease \/ TryDecrease \/ TryDecreaseToPositive \/ Size \/ Unsigned

Spec == Init /\ [][Next]_vars

\* A window of a non-negative initial size on which try_decrease is never
\* called.
InitNonNeg == InitWindow /\ win >= 0 /\ HeaderIdle

NextNonNeg == TryIncrease \/ TryDecreaseToPositive \/ Size \/ Unsigned

SpecNonNeg == InitNonNeg /\ [][NextNonNeg]_vars

\* from_bytes on every input, then the views of the value.
InitHeaderValue == WindowIdle /\ InitHeader

NextHeader == FromBytes \/ IntoInner \/ AsSlice

SpecHeader == InitHeaderValue /\ [][NextHeader]_vars

----------------------------------------------------------------------------
(* Properties of WindowSize *)

\* window - delta is below i32::MIN.
BelowRegister(w, d) == d > 0 /\ w < MinI32 + d

\* window - delta is above i32::MAX.
AboveRegister(w, d) == d < 0 /\ w > MaxI32 + d

\* 0 < delta <= 2^31 - 1.
LegalIncrement(d) == d.hi = 0 /\ d.lo >= 1 /\ d.lo <= MAX_WINDOW_SIZE_INC

\* C1: unsigned() returns the exact value of a non-negative window and
\* panics on a negative window instead of returning the wrapped value.
C1_UnsignedExactOrPanics ==
    last.op = "unsigned" =>
        IF last.before >= 0
        THEN ~last.panic /\ last.ru = U32(0, last.before)
        ELSE last.panic

\* C2: a mutating call (try_increase, try_decrease,
\* try_decrease_to_positive) that returns Err leaves the window at the value
\* it had before the call.
C2_FailedCallLeavesWindow ==
    (last.op \in Mutating /\ last.res = "Err") => win = last.before

C2_Witness ==
    /\ last.op = "try_increase"
    /\ last.du = U32(0, 1)
    /\ last.before = MaxI32
    /\ last.res = "Err"
    /\ calls >= 2

\* C3: try_increase(delta) with delta = 0 or delta > 2^31 - 1 fails at the
\* test of delta (the Err of line 32), whatever the window is, and leaves
\* the window untouched.
C3_IllegalIncrementRejected ==
    (last.op = "try_increase" /\ ~LegalIncrement(last.du)) =>
        /\ last.res = "Err"
        /\ last.line = 32
        /\ win = last.before

\* A negative window for which window + 2^31 fits the register.
C3_Witness ==
    /\ last.op = "try_increase"
    /\ last.du = U32(1, 0)
    /\ last.before = -1
    /\ last.res = "Err"

\* C4: try_increase(delta) with 0 < delta <= 2^31 - 1 succeeds exactly when
\* window + delta is at most MAX_WINDOW_SIZE, and the window is then
\* window + delta; otherwise it fails with the Err of the overflow (line 39)
\* and the window is unchanged.  The window never exceeds MAX_WINDOW_SIZE.
C4_IncreaseExactOrOverflow ==
    /\ win \in I32
    /\ win <= MAX_WINDOW_SIZE
    /\ (last.op = "try_increase" /\ LegalIncrement(last.du)) =>
        IF last.before <= MAX_WINDOW_SIZE - last.du.lo
        THEN /\ last.res = "Ok"
             /\ win = last.before + last.du.lo
        ELSE /\ last.res = "Err"
             /\ last.line = 39
             /\ win = last.before

C4_Witness ==
    /\ last.op = "try_increase"
    /\ last.du = U32(0, 1000)
    /\ last.before = 65535
    /\ win = 66535

C6_DecreaseToPositive ==
    last.op = "try_decrease_to_positive" =>
        /\ last.before < last.di =>
            /\ last.res = "Err"
            /\ last.line = 71
            /\ win = last.before
        /\ (/\ last.before >= last.di
            /\ ~AboveRegister(last.before, last.di)) =>
            /\ last.res = "Ok"
            /\ win = last.before - last.di

C6_Witness ==
    /\ last.op = "try_decrease_to_positive"
    /\ last.before = 10
    /\ last.di = 50
    /\ last.res = "Err"
    /\ win = 10

\* C10: from a non-negative initial size, under try_increase and
\* try_decrease_to_positive alone, the window stays in 0..2^31-1, and
\* unsigned() does not panic and returns the number size() returns.
C10_NonNegativeWindow ==
    /\ win >= 0
    /\ win <= MAX_WINDOW_SIZE
    /\ unsigned(win) = [panic |-> FALSE, val |-> U32(0, size(win))]
    /\ last.op = "unsigned" => ~last.panic /\ last.ru = U32(0, win)

C10_Witness ==
    /\ last.op = "unsigned"
    /\ win = 0
    /\ calls = 3
    /\ ~last.panic

----------------------------------------------------------------------------
(* Properties of HeaderValue *)

\* The octets of the invariant of a header value.
Allowed(b) == b = 9 \/ (b >= 32 /\ b <= 126)

Validated == result # NoResult

\* C7: from_bytes succeeds if and only if every byte is 0x09 or in
\* 0x20..0x7E; so a validated value holds no byte >= 0x80, no 0x7F and no
\* control character but the tab.
C7_ValidIffAllowed ==
    Validated =>
        /\ result.ok <=> \A i \in 1..Len(input) : Allowed(input[i])
        /\ result.ok =>
            \A i \in 1..Len(as_slice(result.val)) :
                LET b == as_slice(result.val)[i] IN
                b < 128 /\ b # 127 /\ (b < 32 => b = 9)

C7_Witness ==
    /\ result.ok
    /\ input = <<72, 9, 105>>

\* C8: when from_bytes fails, the first disallowed byte of the input decides
\* the error: HeaderValueNotAscii if it is >= 0x80, IncorrectCharInValue if
\* it is below 0x20 (and not 0x09) or is 0x7F.
C8_FirstBadByteDecides ==
    (Validated /\ ~result.ok) =>
        /\ \E i \in 1..Len(input) : ~Allowed(input[i])
        /\ LET first == CHOOSE i \in 1..Len(input) :
                            /\ ~Allowed(input[i])
                            /\ \A j \in 1..(i - 1) : Allowed(input[j])
           IN result.err = IF input[first] >= 128
                           THEN "HeaderValueNotAscii"
                           ELSE "IncorrectCharInValue"

C8_Witness ==
    /\ input = <<10, 128>>
    /\ result.err = "IncorrectCharInValue"

====
